---------------------------- MODULE Spec2Model ----------------------------
(***************************************************************************)
(* A model of src/coreline.py: the Core Lines Renewal Performance          *)
(* dashboard.  One behaviour of the model is one run of the script: the    *)
(* sidebar is read, connect_to_salesforce fetches and classifies the       *)
(* opportunity records, and the retention, win-rate and workload sections  *)
(* are computed in turn.                                                   *)
(*                                                                         *)
(* Encodings.                                                              *)
(*  - A JSON value that may be null is None (<<>>) or Some(v) (<<v>>).     *)
(*    A 'YYYY-MM-DD' date string is the triple <<y, m, d>>, so a nullable  *)
(*    date is <<>> or <<y, m, d>>.  A key that is absent from a JSON       *)
(*    object is absent from the DOMAIN of the record.                      *)
(*  - A DataFrame is a bag of rows (row -> multiplicity): every aggregate  *)
(*    the script takes (len, sum, groupby, isin) is independent of the     *)
(*    row order, and each sort_values orders its own output.               *)
(*  - A float rate is the exact fraction [num, den] (den > 0); a rate      *)
(*    rounded to one decimal is an integer number of tenths.               *)
(*  - WeightedCount is kept in units of 0.5 (Flood = 1 unit, other = 2).   *)
(***************************************************************************)
EXTENDS Integers, Sequences, FiniteSets, TLC

VARIABLES pc, today, date_range_type, time_period, start_date, end_date,
          min_opportunities, selected_lines, messages, df, df_filtered,
          retention_df, comparison_df, date_diff, time_label, time_totals,
          am_summary

vars == <<pc, today, date_range_type, time_period, start_date, end_date,
          min_opportunities, selected_lines, messages, df, df_filtered,
          retention_df, comparison_df, date_diff, time_label, time_totals,
          am_summary>>

---------------------------------------------------------------------------
(* Nullable values, dictionaries, sums, fractions.                         *)

None == <<>>

Some(v) == <<v>>

\* dict.get(key, default) for a key that may be None (None is never a key).
DictGet(d, key, default) ==
    IF key # None /\ key[1] \in DOMAIN d THEN d[key[1]] ELSE default

\* record.get(field, default) on a JSON object.
FieldGet(record, field, default) ==
    IF field \in DOMAIN record THEN record[field] ELSE default

RECURSIVE SumFn(_)
SumFn(f) ==
    IF DOMAIN f = {} THEN 0
    ELSE LET x == CHOOSE x \in DOMAIN f : TRUE
         IN  f[x] + SumFn([y \in DOMAIN f \ {x} |-> f[y]])

\* The bag of the rows of B that are in keep (a boolean mask df[mask]).
BagFilter(B, keep) == [r \in DOMAIN B \cap keep |-> B[r]]

\* len(df)
BagLen(B) == SumFn(B)

EmptyBag == [r \in {} |-> 0]

Frac(n, d) == [num |-> n, den |-> d]

\* a <= b for fractions with positive denominators
FracLeq(a, b) == a.num * b.den <= b.num * a.den

\* round(n / d) to the nearest integer, ties to even (numpy / format)
RoundHalfEven(n, d) ==
    LET q == n \div d
        r == n - q * d
    IN  IF 2 * r < d THEN q
        ELSE IF 2 * r > d THEN q + 1
        ELSE IF q % 2 = 0 THEN q ELSE q + 1

\* a rate rounded to one decimal, in tenths: .round(1), f"{x:.1f}"
RoundTenths(rate) == RoundHalfEven(rate.num * 10, rate.den)

---------------------------------------------------------------------------
(* Reference data.                                                         *)

get_stage_metadata ==
    ("New" :> "Open") @@ ("Information Gathering" :> "Open") @@
    ("Rating" :> "Open") @@ ("Proposal Generation" :> "Open") @@
    ("Decision Pending" :> "Open") @@ ("Pre-Bind Review" :> "Open") @@
    ("Quote to Bind" :> "Open") @@ ("Binding" :> "Open") @@
    ("Billing" :> "Open") @@ ("Post-Binding" :> "Open") @@
    ("Closed Won" :> "Won") @@ ("Closed Lost" :> "Lost")

get_business_type_categories ==
    ("Bond" :> "Commercial") @@
    ("Builders Risk/Installation - CL" :> "Commercial") @@
    ("Bumbershoot" :> "Commercial") @@
    ("Business Owners" :> "Commercial") @@
    ("Commercial Auto" :> "Commercial") @@
    ("Commercial Package" :> "Commercial") @@
    ("Commercial Property" :> "Commercial") @@
    ("Commercial Umbrella" :> "Commercial") @@
    ("Crime" :> "Commercial") @@
    ("Cyber & Privacy Liability" :> "Commercial") @@
    ("Directors & Officers" :> "Commercial") @@
    ("Dwelling Fire CL" :> "Commercial") @@
    ("Errors and Omissions" :> "Commercial") @@
    ("Flood - CL" :> "Commercial") @@
    ("General Liability" :> "Commercial") @@
    ("Inland Marine CL" :> "Commercial") @@
    ("Marine Package" :> "Commercial") @@
    ("Surety" :> "Commercial") @@
    ("Workers Compensation" :> "Commercial") @@
    ("Employment Practices Liability" :> "Commercial") @@
    ("Liquor Liability" :> "Commercial") @@
    ("Wind Only - CL" :> "Commercial") @@
    ("Builders Risk/Installation - PL" :> "Homeowners") @@
    ("Dwelling Fire - PL" :> "Homeowners") @@
    ("Homeowners" :> "Homeowners") @@
    ("Mobile Homeowners" :> "Homeowners") @@
    ("Wind Only - PL" :> "Homeowners") @@
    ("Charter Watercraft" :> "Marine") @@
    ("Watercraft" :> "Marine") @@
    ("Yacht" :> "Marine") @@
    ("Flood - PL" :> "Flood") @@
    ("Golf Cart" :> "Specialty") @@
    ("Inland Marine PL" :> "Specialty") @@
    ("Motorcycle/ATV" :> "Specialty") @@
    ("Motorhome" :> "Specialty") @@
    ("Recreational Vehicle" :> "Specialty") @@
    ("Travel Trailer" :> "Specialty") @@
    ("Life" :> "Life") @@
    ("Personal Auto" :> "Auto") @@
    ("Personal Liability" :> "CPL") @@
    ("Umbrella" :> "Umbrella")

get_core_lines ==
    <<"Auto", "CPL", "Commercial", "Flood", "Homeowners", "Marine",
      "Specialty", "Umbrella">>

---------------------------------------------------------------------------
(* Dates.                                                                  *)

\* The proleptic Gregorian day number of <<y, m, d>> (days since 1970-01-01).
DaysFromCivil(ymd) ==
    LET y   == IF ymd[2] <= 2 THEN ymd[1] - 1 ELSE ymd[1]
        era == y \div 400
        yoe == y - era * 400
        mp  == IF ymd[2] > 2 THEN ymd[2] - 3 ELSE ymd[2] + 9
        doy == (153 * mp + 2) \div 5 + ymd[3] - 1
        doe == yoe * 365 + yoe \div 4 - yoe \div 100 + doy
    IN  era * 146097 + doe - 719468

\* datetime.datetime values (the time of day is the same in all of them) and
\* datetime.date values: the type is kept, since the two do not subtract.
DateTime(ord) == [type |-> "datetime", ord |-> ord]

Date(ord) == [type |-> "date", ord |-> ord]

\* x - datetime.timedelta(days=n)
MinusDays(x, n) == [x EXCEPT !.ord = @ - n]

\* st.sidebar.date_input returns a datetime.date
DateInput(x) == Date(x.ord)

---------------------------------------------------------------------------
(* The CRM: what the two queries can return.  The CRM is outside the       *)
(* program; its answers are inputs.                                        *)

MaxRecords == 3

d1 == <<2026, 11, 2>>

d2 == <<2026, 10, 30>>

\* One record of opportunity_results['records'].
Opp(stage, type, account_id, close_date, premium) ==
    [StageName |-> stage, Type |-> type, AccountId |-> account_id,
     Account |-> Some([Name |-> "Acme"]),
     New_Business_or_Renewal__c |-> Some("Personal Lines - Renewal"),
     CloseDate |-> close_date, Renewal_Policy_Premium__c |-> premium]

\* The JSON object without one of its keys.
Without(record, field) == [k \in DOMAIN record \ {field} |-> record[k]]

\* The answer to account_query: accounts that have a manager.
AccountResults ==
    {[Id |-> "001J", Name |-> "Acme", Account_Manager__r |-> [Name |-> "Jane"]],
     [Id |-> "001B", Name |-> "Bolt", Account_Manager__r |-> [Name |-> "Bob"]]}

RawStages == {Some("Closed Won"), Some("Closed Lost"), Some("New"),
              Some("closed won"), None}

RawTypes == {Some("Personal Auto"), Some("Flood - PL"), Some("Yacht"),
             Some("Life"), Some("personal auto"), None}

RawPremiums == {None, Some(0), Some(500)}

\* Single records that span the stage, type and premium inputs, the keys
\* Type and Renewal_Policy_Premium__c present or absent.
ClassifyBase ==
    {Opp(s, t, Some("001J"), d1, p) :
        s \in RawStages, t \in RawTypes, p \in RawPremiums}

ClassifyRecords ==
    ClassifyBase \cup {Without(r, "Type") : r \in ClassifyBase}
                 \cup {Without(r, "Renewal_Policy_Premium__c") : r \in ClassifyBase}

\* Single records whose account has no manager or is missing.
AccountRecords ==
    {Opp(Some("Closed Won"), Some("Personal Auto"), a, d1, Some(500)) :
        a \in {Some("001X"), None}}

\* A record with no account: the relationship field Account is null.
NoAccountRecord ==
    [Opp(Some("Closed Won"), Some("Personal Auto"), None, d1, Some(500))
        EXCEPT !.Account = None]

\* The records that are combined into answers of up to MaxRecords records.
MixRecords ==
    {Opp(Some("Closed Won"),  Some("Personal Auto"), Some("001J"), d1,   Some(1000)),
     Opp(Some("Closed Lost"), Some("Personal Auto"), Some("001J"), d1,   Some(500)),
     Opp(Some("Closed Lost"), Some("Personal Auto"), Some("001J"), None, Some(-500)),
     Opp(Some("Closed Won"),  Some("Flood - PL"),    Some("001J"), d2,   Some(500)),
     Opp(Some("New"),         Some("Flood - PL"),    Some("001B"), d1,   None),
     Opp(Some("Closed Won"),  Some("Yacht"),         Some("001J"), d1,   Some(500)),
     Opp(Some("Closed Lost"), Some("Yacht"),         Some("001B"), d2,   Some(1000)),
     Opp(Some("Closed Won"),  Some("Flood - PL"),    Some("001B"), None, Some(1000))}

BagAdd(B, r) ==
    IF r \in DOMAIN B THEN [B EXCEPT ![r] = @ + 1] ELSE B @@ (r :> 1)

RECURSIVE MixBags(_)
MixBags(n) ==
    IF n = 0 THEN {EmptyBag}
    ELSE LET smaller == MixBags(n - 1)
         IN  smaller \cup {BagAdd(B, r) : B \in smaller, r \in MixRecords}

\* Answers with many records of few kinds.
ScenarioBags ==
    {\* one manager: 2 closed outside Marine, 5 closed with a close date
     (Opp(Some("Closed Won"), Some("Personal Auto"), Some("001J"), d1, Some(1000)) :> 2)
       @@ (Opp(Some("Closed Won"), Some("Yacht"), Some("001J"), d1, Some(500)) :> 3),
     \* one manager, one close date: 100 Flood and 100 Homeowners records
     (Opp(Some("Closed Won"), Some("Flood - PL"), Some("001J"), d2, Some(500)) :> 100)
       @@ (Opp(Some("Closed Won"), Some("Homeowners"), Some("001J"), d2, Some(500)) :> 100)}

\* Every answer to opportunity_query that the model considers.
OpportunityResults ==
    MixBags(MaxRecords)
      \cup {(r :> 1) : r \in ClassifyRecords \cup AccountRecords \cup {NoAccountRecord}}
      \cup {BagAdd((r :> 1), NoAccountRecord) : r \in MixRecords}
      \cup ScenarioBags

\* What the CRM does during one fetch.
FetchFailures == {"connect", "account_query", "opportunity_query"}

CRMAnswers ==
    {[fails |-> f, accounts |-> {}, opportunities |-> EmptyBag] : f \in FetchFailures}
      \cup {[fails |-> "none", accounts |-> AccountResults, opportunities |-> B] :
               B \in OpportunityResults}

---------------------------------------------------------------------------
(* connect_to_salesforce                                                   *)

\* lines 146-151
account_manager_map(account_results) ==
    [id \in {a.Id : a \in account_results} |->
        LET record == CHOOSE a \in account_results : a.Id = id
        IN  FieldGet(FieldGet(record, "Account_Manager__r", <<>>),
                     "Name", "Not Assigned")]

\* float(x or 0): None and 0 give 0.0
FloatOrZero(x) == IF x = None \/ x = Some(0) THEN 0 ELSE x[1]

\* The loop body raises: record[k] on a missing key (KeyError), or .get on
\* the null Account relationship (AttributeError).
RecordRaises(record) ==
    \/ {"StageName", "New_Business_or_Renewal__c", "AccountId", "CloseDate"}
          \ DOMAIN record # {}
    \/ FieldGet(record, "Account", Some(<<>>)) = None

\* Mutant of StageCategory: an unmatched stage counts as Open.
StageCategory_DefaultOpen(stage_name) ==
    DictGet(get_stage_metadata, stage_name, "Open")

\* line 183: stage_metadata.get(stage_name, {"category": "Unknown"})["category"]
StageCategory(stage_name) == DictGet(get_stage_metadata, stage_name, "Unknown")

\* Mutant of BusinessCategoryOf: an unmatched type string is kept as the
\* category.
BusinessCategoryOf_PassThrough(business_type) ==
    IF business_type = None THEN "Other"
    ELSE DictGet(get_business_type_categories, business_type, business_type[1])

\* line 186: business_type_categories.get(business_type, "Other")
BusinessCategoryOf(business_type) ==
    DictGet(get_business_type_categories, business_type, "Other")

\* lines 174-198: the row appended for one record
ProcessRecord(record, manager_map) ==
    LET stage_name    == record.StageName
        business_type == FieldGet(record, "Type", Some("Not Specified"))
    IN  [StageName        |-> stage_name,
         StatusCategory   |-> StageCategory(stage_name),
         RenewalType      |-> record.New_Business_or_Renewal__c,
         BusinessType     |-> business_type,
         BusinessCategory |-> BusinessCategoryOf(business_type),
         AccountManager   |-> DictGet(manager_map, record.AccountId, "Not Assigned"),
         CloseDate        |-> record.CloseDate,
         AccountName      |-> FieldGet(FieldGet(record, "Account", Some(<<>>))[1],
                                       "Name", "Unknown Account"),
         Premium          |-> FloatOrZero(
                                FieldGet(record, "Renewal_Policy_Premium__c", Some(0)))]

\* The bag of f[x] for the records x of B.
BagMap(B, f) ==
    [row \in {f[x] : x \in DOMAIN B} |->
        SumFn([x \in {y \in DOMAIN B : f[y] = row} |-> B[x]])]

\* Mutant of connect_to_salesforce: when a record fails, the rows of the
\* other records are returned.
connect_to_salesforce_PartialRows(crm) ==
    IF crm.fails # "none"
    THEN [df |-> EmptyBag, error |-> crm.fails]
    ELSE LET manager_map == account_manager_map(crm.accounts)
             good == BagFilter(crm.opportunities,
                               {r \in DOMAIN crm.opportunities : ~RecordRaises(r)})
             Row == [record \in DOMAIN good |-> ProcessRecord(record, manager_map)]
         IN  [df |-> BagMap(good, Row),
              error |-> IF \E r \in DOMAIN crm.opportunities : RecordRaises(r)
                        THEN "record" ELSE "none"]

\* line 206: st.error(f"Error connecting to Salesforce: {str(e)}")
FetchError(cause) ==
    IF cause = "connect" THEN "error: connecting to Salesforce: authentication failed"
    ELSE IF cause = "account_query" THEN "error: connecting to Salesforce: account query failed"
    ELSE IF cause = "opportunity_query" THEN "error: connecting to Salesforce: opportunity query failed"
    ELSE "error: connecting to Salesforce: 'NoneType' object has no attribute 'get'"

\* lines 111-207: the DataFrame returned, and the step the except branch
\* caught ("none" when the try block ran to its end)
connect_to_salesforce(crm) ==
    IF \/ crm.fails # "none"
       \/ \E record \in DOMAIN crm.opportunities : RecordRaises(record)
    THEN [df |-> EmptyBag,
          error |-> IF crm.fails # "none" THEN crm.fails ELSE "record"]
    ELSE LET manager_map == account_manager_map(crm.accounts)
             Row == [record \in DOMAIN crm.opportunities |->
                        ProcessRecord(record, manager_map)]
         IN  [df |-> BagMap(crm.opportunities, Row), error |-> "none"]

---------------------------------------------------------------------------
(* Aggregation.                                                            *)

\* series.sum() of the Premium column
PremiumSum(B) == SumFn([r \in DOMAIN B |-> r.Premium * B[r]])

\* The orders sort_values(key, ascending=False) can leave the rows in: any
\* order that does not increase, the order of equal keys being left open
\* (the default sort is not stable).  leq holds <<x, y>> when key(x) <= key(y).
SortedDescending(rows, leq) ==
    LET n == Cardinality(rows)
    IN  {s \in [1..n -> rows] :
            /\ \A i, j \in 1..n : i # j => s[i] # s[j]
            /\ \A i \in 1..n : i < n => <<s[i + 1], s[i]>> \in leq}

\* Mutant of RetentionRate: the ratio of won to lost renewals.
RetentionRate_WonOverLost(won_renewals, lost_renewals) ==
    IF lost_renewals > 0
    THEN Frac(won_renewals * 100, lost_renewals)
    ELSE Frac(0, 1)

\* lines 224-225
RetentionRate(won_renewals, lost_renewals) ==
    LET closed_renewals == won_renewals + lost_renewals
    IN  IF closed_renewals > 0
        THEN Frac(won_renewals * 100, closed_renewals)
        ELSE Frac(0, 1)

\* Mutant of PremiumRetentionRate: the share of the lost premium.
PremiumRetentionRate_OfLost(won_premium, lost_premium) ==
    IF won_premium + lost_premium > 0
    THEN Frac(lost_premium * 100, won_premium + lost_premium)
    ELSE Frac(0, 1)

\* line 230
PremiumRetentionRate(won_premium, lost_premium) ==
    IF won_premium + lost_premium > 0
    THEN Frac(won_premium * 100, won_premium + lost_premium)
    ELSE Frac(0, 1)

\* lines 215-244: the entry appended for one category
RetentionEntry(frame, category) ==
    LET category_data  == BagFilter(frame, {r \in DOMAIN frame : r.BusinessCategory = category})
        won_data       == BagFilter(category_data, {r \in DOMAIN category_data : r.StatusCategory = "Won"})
        lost_data      == BagFilter(category_data, {r \in DOMAIN category_data : r.StatusCategory = "Lost"})
        open_data      == BagFilter(category_data, {r \in DOMAIN category_data : r.StatusCategory = "Open"})
        won_renewals   == BagLen(won_data)
        lost_renewals  == BagLen(lost_data)
        closed_renewals == won_renewals + lost_renewals
        won_premium    == PremiumSum(won_data)
        lost_premium   == PremiumSum(lost_data)
    IN  [BusinessCategory |-> category,
         Total            |-> BagLen(category_data),
         Won              |-> won_renewals,
         Lost             |-> lost_renewals,
         Open             |-> BagLen(open_data),
         Closed           |-> closed_renewals,
         RetentionRate    |-> RetentionRate(won_renewals, lost_renewals),
         TotalPremium     |-> PremiumSum(category_data),
         WonPremium       |-> won_premium,
         LostPremium      |-> lost_premium,
         PremiumRetentionRate |-> PremiumRetentionRate(won_premium, lost_premium)]

\* lines 210-246: one entry per core line that has rows, in core-line order
calculate_retention_rates(frame) ==
    LET HasRows(category) ==
            BagLen(BagFilter(frame, {r \in DOMAIN frame : r.BusinessCategory = category})) > 0
        present == SelectSeq(get_core_lines, HasRows)
    IN  [i \in 1..Len(present) |-> RetentionEntry(frame, present[i])]

\* Mutant of RetentionReports: the entries without closed rows are kept.
RetentionReports_Unfiltered(frame) ==
    LET all  == calculate_retention_rates(frame)
        kept == {all[i] : i \in 1..Len(all)}
    IN  SortedDescending(kept,
            {p \in kept \X kept : FracLeq(p[1].RetentionRate, p[2].RetentionRate)})

\* line 337: the entries with Closed > 0, sorted by RetentionRate, descending
RetentionReports(frame) ==
    LET all  == calculate_retention_rates(frame)
        kept == {all[i] : i \in {k \in 1..Len(all) : all[k].Closed > 0}}
    IN  SortedDescending(kept,
            {p \in kept \X kept : FracLeq(p[1].RetentionRate, p[2].RetentionRate)})

\* Mutant of calculate_win_rates: the rate is taken over all the rows of the
\* manager, the open ones included.
calculate_win_rates_OverTotal(dataframe) ==
    [manager \in {r.AccountManager : r \in DOMAIN dataframe} |->
        LET mine == BagFilter(dataframe, {r \in DOMAIN dataframe : r.AccountManager = manager})
            Count(status) ==
                BagLen(BagFilter(mine, {r \in DOMAIN mine : r.StatusCategory = status}))
        IN  [Won      |-> Count("Won"),
             Lost     |-> Count("Lost"),
             Open     |-> Count("Open"),
             Total    |-> BagLen(mine),
             Win_Rate |-> IF BagLen(mine) = 0 THEN 0
                          ELSE RoundTenths(Frac(Count("Won") * 100, BagLen(mine)))]]

\* lines 496-511: the pivot, one row per manager of the frame
calculate_win_rates(dataframe) ==
    [manager \in {r.AccountManager : r \in DOMAIN dataframe} |->
        LET mine == BagFilter(dataframe, {r \in DOMAIN dataframe : r.AccountManager = manager})
            Count(status) ==
                BagLen(BagFilter(mine, {r \in DOMAIN mine : r.StatusCategory = status}))
            closed_ops == Count("Won") + Count("Lost")
        IN  [Won      |-> Count("Won"),
             Lost     |-> Count("Lost"),
             Open     |-> Count("Open"),
             Total    |-> BagLen(mine),
             \* 0 / 0 is NaN, which fillna(0) turns into 0
             Win_Rate |-> IF closed_ops = 0 THEN 0
                          ELSE RoundTenths(Frac(Count("Won") * 100, closed_ops))]]

\* line 514
NoMarine(frame) == BagFilter(frame, {r \in DOMAIN frame : r.BusinessCategory # "Marine"})

\* line 515
WithCloseDate(frame) == BagFilter(frame, {r \in DOMAIN frame : r.CloseDate # None})

\* Mutant of EnoughData: only the narrow scope is gated.
EnoughData_CoreOnly(all_closed, core_closed, threshold) ==
    core_closed >= threshold

\* line 530: the data-sufficiency gate
EnoughData(all_closed, core_closed, threshold) ==
    all_closed >= threshold /\ core_closed >= threshold

\* lines 519-538: comparison_data, as a set (it is sorted afterwards)
ComparisonData(frame, threshold) ==
    LET all_lines_rates  == calculate_win_rates(NoMarine(frame))
        core_lines_rates == calculate_win_rates(WithCloseDate(frame))
        common_managers  == DOMAIN all_lines_rates \cap DOMAIN core_lines_rates
        all_closed(m)    == all_lines_rates[m].Won + all_lines_rates[m].Lost
        core_closed(m)   == core_lines_rates[m].Won + core_lines_rates[m].Lost
    IN  {[AccountManager      |-> m,
          All_Lines_Win_Rate  |-> all_lines_rates[m].Win_Rate,
          Core_Lines_Win_Rate |-> core_lines_rates[m].Win_Rate,
          Difference          |-> core_lines_rates[m].Win_Rate
                                    - all_lines_rates[m].Win_Rate,
          All_Lines_Total     |-> all_lines_rates[m].Total,
          Core_Lines_Total    |-> core_lines_rates[m].Total] :
            m \in {x \in common_managers :
                     EnoughData(all_closed(x), core_closed(x), threshold)}}

\* line 542
ComparisonReports(frame, threshold) ==
    LET rows == ComparisonData(frame, threshold)
    IN  SortedDescending(rows,
            {p \in rows \X rows :
                p[1].Core_Lines_Win_Rate <= p[2].Core_Lines_Win_Rate})

\* Mutant of Weight: every row weighs 1.0.
Weight_Unit(business_category) == 2

\* lines 629-631: the weight of a row, in units of 0.5
Weight(business_category) == IF business_category = "Flood" THEN 1 ELSE 2

\* Mutant of TimeLabel: the limits are exclusive.
TimeLabel_Exclusive(span) ==
    IF span < 31
    THEN IF span < 7 THEN "Day" ELSE "Week"
    ELSE IF span < 365 THEN "Month" ELSE "Quarter"

\* lines 636-648: the granularity chosen from the span
TimeLabel(span) ==
    IF span <= 31
    THEN IF span <= 7 THEN "Day" ELSE "Week"
    ELSE IF span <= 365 THEN "Month" ELSE "Quarter"

\* strftime('%U'): the week of the year, weeks starting on Sunday
WeekOfYear(ymd) ==
    LET days == DaysFromCivil(ymd)
        yday == days - DaysFromCivil(<<ymd[1], 1, 1>>)
        wday == (days + 4) % 7
    IN  (yday + 7 - wday) \div 7

NaN == <<"NaN">>

\* lines 626, 636-648: the TimeGroup of a row.  pd.to_datetime(None) is NaT;
\* .dt.strftime gives NaN for NaT, .dt.to_period('Q').astype(str) the
\* string 'NaT'.
TimeGroup(close_date, span) ==
    IF span <= 31
    THEN IF span <= 7
         THEN IF close_date = None THEN NaN
              ELSE <<"D", close_date[1], close_date[2], close_date[3]>>
         ELSE IF close_date = None THEN NaN
              ELSE <<"W", close_date[1], WeekOfYear(close_date)>>
    ELSE IF span <= 365
         THEN IF close_date = None THEN NaN
              ELSE <<"M", close_date[1], close_date[2]>>
         ELSE IF close_date = None THEN <<"NaT">>
              ELSE <<"Q", close_date[1], (close_date[2] - 1) \div 3 + 1>>

\* groupby leaves out the rows whose key is NaN
Grouped(frame, span) ==
    BagFilter(frame, {r \in DOMAIN frame : TimeGroup(r.CloseDate, span) # NaN})

\* lines 651-658
workload_summary(frame, span) ==
    LET rows == Grouped(frame, span)
        keys == {<<r.AccountManager, TimeGroup(r.CloseDate, span),
                   r.BusinessCategory>> : r \in DOMAIN rows}
    IN  {LET group == BagFilter(rows, {r \in DOMAIN rows :
                          /\ r.AccountManager = k[1]
                          /\ TimeGroup(r.CloseDate, span) = k[2]
                          /\ r.BusinessCategory = k[3]})
             first == CHOOSE r \in DOMAIN group : TRUE
         IN  [AccountManager   |-> k[1],
              TimeGroup        |-> k[2],
              BusinessCategory |-> k[3],
              Count            |-> BagLen(group),
              WeightedCount    |-> BagLen(group) * Weight(first.BusinessCategory)] :
         k \in keys}

\* the sum of a column over a set of (distinct) rows
ColumnSum(rows, column) == SumFn([r \in rows |-> r[column]])

\* lines 661-664
TimeTotals(frame, span) ==
    LET summary == workload_summary(frame, span)
    IN  {LET group == {g \in summary :
                          g.AccountManager = k[1] /\ g.TimeGroup = k[2]}
         IN  [AccountManager |-> k[1],
              TimeGroup      |-> k[2],
              Count          |-> ColumnSum(group, "Count"),
              WeightedCount  |-> ColumnSum(group, "WeightedCount")] :
         k \in {<<g.AccountManager, g.TimeGroup>> : g \in summary}}

\* Mutant of AmSummaries: the operands of Workload Reduction are exchanged.
AmSummaries_Exchanged(totals) ==
    LET rows == {LET group == {t \in totals : t.AccountManager = m}
                     count == ColumnSum(group, "Count")
                     weighted == ColumnSum(group, "WeightedCount")
                 IN  [AccountManager     |-> m,
                      Total_Policies     |-> count,
                      Weighted_Total     |-> weighted,
                      Workload_Reduction |-> weighted - 2 * count] :
                 m \in {t.AccountManager : t \in totals}}
    IN  SortedDescending(rows,
            {p \in rows \X rows : p[1].Weighted_Total <= p[2].Weighted_Total})

\* lines 686-692.  Weighted Total and Workload Reduction are in units of 0.5.
AmSummaries(totals) ==
    LET rows == {LET group == {t \in totals : t.AccountManager = m}
                     count == ColumnSum(group, "Count")
                     weighted == ColumnSum(group, "WeightedCount")
                 IN  [AccountManager     |-> m,
                      Total_Policies     |-> count,
                      Weighted_Total     |-> weighted,
                      Workload_Reduction |-> 2 * count - weighted] :
                 m \in {t.AccountManager : t \in totals}}
    IN  SortedDescending(rows,
            {p \in rows \X rows : p[1].Weighted_Total <= p[2].Weighted_Total})

---------------------------------------------------------------------------
(* The sidebar.                                                            *)

Todays == {<<2026, 11, 3>>}

TimePeriods == {"Last 7 Days", "Last 30 Days", "Last Quarter", "Year to Date"}

\* Custom ranges the user enters, as days before today of <<start, end>>.
CustomRanges ==
    {<<10, 0>>, <<31, 0>>, <<32, 0>>, <<200, 0>>, <<365, 0>>, <<366, 0>>,
     <<0, 400>>}

\* Values of the slider (line 307: 1 to 10) that the model tries.
Thresholds == {1, 2, 3}

CoreLineSet == {get_core_lines[i] : i \in DOMAIN get_core_lines}

\* Values of the multiselect (subsets of the core lines) that the model tries.
LineSelections == {CoreLineSet, {"Auto", "Flood"}}

\* lines 274-285
PredefinedRange(now, period) ==
    IF period = "Last 7 Days" THEN <<MinusDays(now.dt, 7), now.dt>>
    ELSE IF period = "Last 30 Days" THEN <<MinusDays(now.dt, 30), now.dt>>
    ELSE IF period = "Last Quarter" THEN <<MinusDays(now.dt, 90), now.dt>>
    ELSE <<Date(DaysFromCivil(<<now.year, 1, 1>>)), now.dt>>

\* Mutant of ValidateDates: the dates are kept as entered.
ValidateDates_AsEntered(range) == range

\* lines 300-302
ValidateDates(range) ==
    IF range[1].ord > range[2].ord THEN <<range[2], range[1]>> ELSE range

---------------------------------------------------------------------------
(* One run of the script.                                                  *)

Unset == [type |-> "unset", ord |-> 0]

Init ==
    /\ pc = "sidebar"
    /\ today \in {[dt |-> DateTime(DaysFromCivil(t)), year |-> t[1]] : t \in Todays}
    /\ date_range_type = ""
    /\ time_period = ""
    /\ start_date = Unset
    /\ end_date = Unset
    /\ min_opportunities = 0
    /\ selected_lines = {}
    /\ messages = {}
    /\ df = EmptyBag
    /\ df_filtered = EmptyBag
    /\ retention_df = <<>>
    /\ comparison_df = <<>>
    /\ date_diff = 0
    /\ time_label = ""
    /\ time_totals = {}
    /\ am_summary = <<>>

\* lines 266-285, 304-316: a predefined period
SidebarPredefined ==
    /\ pc = "sidebar"
    /\ \E period \in TimePeriods, threshold \in Thresholds, lines \in LineSelections :
          /\ date_range_type' = "Predefined"
          /\ time_period' = period
          /\ start_date' = PredefinedRange(today, period)[1]
          /\ end_date' = PredefinedRange(today, period)[2]
          /\ min_opportunities' = threshold
          /\ selected_lines' = lines
    /\ pc' = "fetch"
    /\ UNCHANGED <<today, messages, df, df_filtered, retention_df, comparison_df,
                   date_diff, time_label, time_totals, am_summary>>

\* lines 286-302, 304-316: a custom range, swapped when entered backwards
SidebarCustom ==
    /\ pc = "sidebar"
    /\ \E range \in CustomRanges, threshold \in Thresholds, lines \in LineSelections :
          LET entered == <<DateInput(MinusDays(today.dt, range[1])),
                           DateInput(MinusDays(today.dt, range[2]))>>
          IN  /\ date_range_type' = "Custom"
              /\ start_date' = ValidateDates(entered)[1]
              /\ end_date' = ValidateDates(entered)[2]
              /\ messages' = IF entered[1].ord > entered[2].ord
                             THEN messages \cup {"error: start date must be before or equal to end date"}
                             ELSE messages
              /\ min_opportunities' = threshold
              /\ selected_lines' = lines
    /\ pc' = "fetch"
    /\ UNCHANGED <<today, time_period, df, df_filtered, retention_df, comparison_df,
                   date_diff, time_label, time_totals, am_summary>>

\* lines 318-320, 111-207
Fetch ==
    /\ pc = "fetch"
    /\ \E crm \in CRMAnswers :
          LET result == connect_to_salesforce(crm)
          IN  /\ df' = result.df
              /\ messages' = IF result.error # "none"
                             THEN messages \cup {FetchError(result.error)}
                             ELSE messages
    /\ pc' = "fetched"
    /\ UNCHANGED <<today, date_range_type, time_period, start_date, end_date,
                   min_opportunities, selected_lines, df_filtered, retention_df,
                   comparison_df, date_diff, time_label, time_totals, am_summary>>

\* lines 322, 749-757: df.empty
NoData ==
    /\ pc = "fetched"
    /\ df = EmptyBag
    /\ messages' = messages \cup {"error: no data for the selected date range",
                                  "info: troubleshooting tips"}
    /\ pc' = "footer"
    /\ UNCHANGED <<today, date_range_type, time_period, start_date, end_date,
                   min_opportunities, selected_lines, df, df_filtered, retention_df,
                   comparison_df, date_diff, time_label, time_totals, am_summary>>

\* Mutant of ApplyFilter: an empty selection is not reported and the run goes
\* on to the reports.
ApplyFilter_NoStop ==
    /\ pc = "fetched"
    /\ df # EmptyBag
    /\ df_filtered' = BagFilter(df, {r \in DOMAIN df :
                                       r.BusinessCategory \in selected_lines})
    /\ messages' = messages \cup {"info: reporting period"}
    /\ pc' = "retention"
    /\ UNCHANGED <<today, date_range_type, time_period, start_date, end_date,
                   min_opportunities, selected_lines, df, retention_df,
                   comparison_df, date_diff, time_label, time_totals, am_summary>>

\* lines 322-331: the business line filter; st.stop() when nothing is left
ApplyFilter ==
    /\ pc = "fetched"
    /\ df # EmptyBag
    /\ LET filtered == BagFilter(df, {r \in DOMAIN df :
                                         r.BusinessCategory \in selected_lines})
       IN  /\ df_filtered' = filtered
           /\ IF filtered = EmptyBag
              THEN /\ messages' = messages \cup
                        {"info: reporting period",
                         "error: no data for the selected business lines"}
                   /\ pc' = "stopped"
              ELSE /\ messages' = messages \cup {"info: reporting period"}
                   /\ pc' = "retention"
    /\ UNCHANGED <<today, date_range_type, time_period, start_date, end_date,
                   min_opportunities, selected_lines, df, retention_df,
                   comparison_df, date_diff, time_label, time_totals, am_summary>>

\* lines 333-490
Retention ==
    /\ pc = "retention"
    /\ retention_df' \in RetentionReports(df_filtered)
    /\ messages' = messages \cup {"header: retention"}
    /\ pc' = "win_rate"
    /\ UNCHANGED <<today, date_range_type, time_period, start_date, end_date,
                   min_opportunities, selected_lines, df, df_filtered,
                   comparison_df, date_diff, time_label, time_totals, am_summary>>

\* lines 492-618
WinRate ==
    /\ pc = "win_rate"
    /\ IF WithCloseDate(df_filtered) = EmptyBag
       THEN /\ comparison_df' = <<>>
            /\ messages' = messages \cup {"header: win rate"}
       ELSE /\ comparison_df' \in ComparisonReports(df_filtered, min_opportunities)
            /\ messages' =
                 IF ComparisonData(df_filtered, min_opportunities) = {}
                 THEN messages \cup {"header: win rate",
                                     "warning: not enough data for win rate comparison"}
                 ELSE messages \cup {"header: win rate"}
    /\ pc' = "workload"
    /\ UNCHANGED <<today, date_range_type, time_period, start_date, end_date,
                   min_opportunities, selected_lines, df, df_filtered,
                   retention_df, date_diff, time_label, time_totals, am_summary>>

\* lines 620-747
Workload ==
    /\ pc = "workload"
    /\ start_date.type = end_date.type
    /\ LET span == end_date.ord - start_date.ord
       IN  /\ date_diff' = span
           /\ time_label' = TimeLabel(span)
           /\ time_totals' = TimeTotals(df_filtered, span)
           /\ am_summary' \in AmSummaries(TimeTotals(df_filtered, span))
    /\ messages' = messages \cup {"header: workload", "info: weighting system"}
    /\ pc' = "footer"
    /\ UNCHANGED <<today, date_range_type, time_period, start_date, end_date,
                   min_opportunities, selected_lines, df, df_filtered,
                   retention_df, comparison_df>>

\* line 634: a datetime and a date do not subtract (TypeError); the run ends
WorkloadTypeError ==
    /\ pc = "workload"
    /\ start_date.type # end_date.type
    /\ messages' = messages \cup {"header: workload", "info: weighting system",
                                  "exception: TypeError"}
    /\ pc' = "exception"
    /\ UNCHANGED <<today, date_range_type, time_period, start_date, end_date,
                   min_opportunities, selected_lines, df, df_filtered,
                   retention_df, comparison_df, date_diff, time_label,
                   time_totals, am_summary>>

\* lines 759-762
Footer ==
    /\ pc = "footer"
    /\ messages' = messages \cup {"footer"}
    /\ pc' = "done"
    /\ UNCHANGED <<today, date_range_type, time_period, start_date, end_date,
                   min_opportunities, selected_lines, df, df_filtered,
                   retention_df, comparison_df, date_diff, time_label,
                   time_totals, am_summary>>

Next ==
    \/ SidebarPredefined
    \/ SidebarCustom
    \/ Fetch
    \/ NoData
    \/ ApplyFilter
    \/ Retention
    \/ WinRate
    \/ Workload
    \/ WorkloadTypeError
    \/ Footer

Spec == Init /\ [][Next]_vars

---------------------------------------------------------------------------
(* Properties.                                                             *)

\* The number of rows of a frame that are in rows.
RowCount(frame, rows) == SumFn([r \in DOMAIN frame \cap rows |-> frame[r]])

\* The retention section has been computed in this run.
RetentionDone == pc \in {"win_rate", "workload", "footer", "done", "exception"}
                   /\ df_filtered # EmptyBag

\* The win-rate section has been computed in this run.
WinRateDone == pc \in {"workload", "footer", "done", "exception"}
                 /\ df_filtered # EmptyBag

\* The workload section has been computed in this run.
WorkloadDone == pc \in {"footer", "done"} /\ df_filtered # EmptyBag

CategorySet == {"Auto", "Homeowners", "Flood", "Commercial", "Marine",
                "Specialty", "Umbrella", "CPL", "Life", "Other"}

\* C1: every row the fetcher joins has a business_category in the closed set
\* {Auto, Homeowners, Flood, Commercial, Marine, Specialty, Umbrella, CPL,
\* Life, Other}: the table's value when the business type is exactly a key of
\* the table, and Other otherwise (unknown string, missing Type, null Type).
C1_BusinessCategoryClosed ==
    /\ \A t \in DOMAIN get_business_type_categories :
          get_business_type_categories[t] \in CategorySet \ {"Other"}
    /\ \A r \in DOMAIN df :
          /\ r.BusinessCategory \in CategorySet
          /\ \A t \in DOMAIN get_business_type_categories :
                r.BusinessType = Some(t)
                   => r.BusinessCategory = get_business_type_categories[t]
          /\ (\A t \in DOMAIN get_business_type_categories : r.BusinessType # Some(t))
                => r.BusinessCategory = "Other"

\* C1 witness: fetched rows with an unrecognised type string classified Other.
C1_Witness ==
    /\ pc = "fetched"
    /\ \E r \in DOMAIN df :
          r.BusinessType = Some("personal auto") /\ r.BusinessCategory = "Other"

OpenStages == {"New", "Information Gathering", "Rating", "Proposal Generation",
               "Decision Pending", "Pre-Bind Review", "Quote to Bind", "Binding",
               "Billing", "Post-Binding"}

\* C2: every row the fetcher joins has an outcome_category in {Open, Won,
\* Lost, Unknown}: Won only for stage "Closed Won", Lost only for "Closed
\* Lost", Open for the ten open stages, Unknown for any stage that is not
\* exactly an entry of the stage table.
C2_OutcomeCategoryClosed ==
    /\ DOMAIN get_stage_metadata = OpenStages \cup {"Closed Won", "Closed Lost"}
    /\ \A s \in OpenStages : get_stage_metadata[s] = "Open"
    /\ \A r \in DOMAIN df :
          /\ r.StatusCategory \in {"Open", "Won", "Lost", "Unknown"}
          /\ r.StatusCategory = "Won" <=> r.StageName = Some("Closed Won")
          /\ r.StatusCategory = "Lost" <=> r.StageName = Some("Closed Lost")
          /\ r.StatusCategory = "Open" <=> \E s \in OpenStages : r.StageName = Some(s)
          /\ r.StatusCategory = "Unknown"
                <=> \A s \in DOMAIN get_stage_metadata : r.StageName # Some(s)

\* C2 witness: a fetched row whose stage differs from a table entry only in
\* case is Unknown.
C2_Witness ==
    /\ pc = "fetched"
    /\ \E r \in DOMAIN df :
          r.StageName = Some("closed won") /\ r.StatusCategory = "Unknown"

\* C3: every entry calculate_retention_rates produces has a RetentionRate in
\* [0, 100] that is Won / (Won + Lost) x 100 when Won + Lost > 0 and exactly 0
\* when Closed = Won + Lost = 0, Won and Lost being the numbers of Won and
\* Lost rows of the category.
C3_RetentionRateRange ==
    RetentionDone =>
       LET entries == calculate_retention_rates(df_filtered)
       IN  \A i \in DOMAIN entries :
              LET e    == entries[i]
                  rate == e.RetentionRate
                  won  == RowCount(df_filtered, {r \in DOMAIN df_filtered :
                             r.BusinessCategory = e.BusinessCategory
                               /\ r.StatusCategory = "Won"})
                  lost == RowCount(df_filtered, {r \in DOMAIN df_filtered :
                             r.BusinessCategory = e.BusinessCategory
                               /\ r.StatusCategory = "Lost"})
              IN  /\ e.Won = won /\ e.Lost = lost /\ e.Closed = won + lost
                  /\ rate.den > 0
                  /\ 0 <= rate.num /\ rate.num <= 100 * rate.den
                  /\ won + lost > 0 => rate.num * (won + lost) = won * 100 * rate.den
                  /\ won + lost = 0 => rate.num = 0

\* C3 witness: one report holds a category without closed rows (rate 0) and a
\* category whose rate is strictly between 0 and 100.
C3_Witness ==
    /\ RetentionDone
    /\ LET entries == calculate_retention_rates(df_filtered)
       IN  /\ \E i \in DOMAIN entries :
                 entries[i].Closed = 0 /\ entries[i].RetentionRate.num = 0
           /\ \E i \in DOMAIN entries :
                 /\ entries[i].Won > 0 /\ entries[i].Lost > 0
                 /\ entries[i].RetentionRate.num > 0

\* C4 (the claim as stated): every entry calculate_retention_rates produces
\* has a PremiumRetentionRate in [0, 100], exactly 0 when WonPremium +
\* LostPremium = 0, whatever numeric premiums the CRM returned.
C4_PremiumRateRange ==
    RetentionDone =>
       LET entries == calculate_retention_rates(df_filtered)
       IN  \A i \in DOMAIN entries :
              LET e    == entries[i]
                  rate == e.PremiumRetentionRate
              IN  /\ rate.den > 0
                  /\ 0 <= rate.num /\ rate.num <= 100 * rate.den
                  /\ e.WonPremium + e.LostPremium = 0 => rate.num = 0

\* The closed (Won or Lost) rows of a manager in a frame.
ClosedOf(frame, manager) ==
    RowCount(frame, {r \in DOMAIN frame :
                        /\ r.AccountManager = manager
                        /\ r.StatusCategory \in {"Won", "Lost"}})

Emitted == {comparison_df[i].AccountManager : i \in DOMAIN comparison_df}

\* C5: every manager emitted in the win-rate comparison has rows in the broad
\* scope (not Marine) and in the narrow scope (with a close date) and has at
\* least min_opportunities closed rows in each; so a manager with 2 closed in
\* the broad scope and 5 in the narrow scope is not emitted at threshold 3.
C5_ComparisonGate ==
    WinRateDone =>
       /\ \A m \in Emitted :
             /\ \E r \in DOMAIN df_filtered :
                   r.AccountManager = m /\ r.BusinessCategory # "Marine"
             /\ \E r \in DOMAIN df_filtered :
                   r.AccountManager = m /\ r.CloseDate # None
             /\ ClosedOf(NoMarine(df_filtered), m) >= min_opportunities
             /\ ClosedOf(WithCloseDate(df_filtered), m) >= min_opportunities
       /\ \A m \in {r.AccountManager : r \in DOMAIN df_filtered} :
             (/\ min_opportunities = 3
              /\ ClosedOf(NoMarine(df_filtered), m) = 2
              /\ ClosedOf(WithCloseDate(df_filtered), m) = 5) => m \notin Emitted

\* C5 witness: at threshold 3, Jane has 2 closed rows in the broad scope and 5
\* in the narrow scope, the comparison has run and she is not in it.
C5_Witness ==
    /\ WinRateDone
    /\ min_opportunities = 3
    /\ ClosedOf(NoMarine(df_filtered), "Jane") = 2
    /\ ClosedOf(WithCloseDate(df_filtered), "Jane") = 5
    /\ "Jane" \notin Emitted

\* The sum of a column of a sorted report.
SeqColumnSum(report, column) == SumFn([i \in DOMAIN report |-> report[i][column]])

\* The weight of a frame by the rule: 1.0 per row that is not Flood, 0.5 per
\* Flood row (in units of 0.5).
RuleWeight(frame) ==
    2 * RowCount(frame, {r \in DOMAIN frame : r.BusinessCategory # "Flood"})
      + RowCount(frame, {r \in DOMAIN frame : r.BusinessCategory = "Flood"})

WorkloadSumsMatch ==
    /\ ColumnSum(time_totals, "WeightedCount") = RuleWeight(df_filtered)
    /\ SeqColumnSum(am_summary, "Weighted_Total") = RuleWeight(df_filtered)
    /\ ColumnSum(time_totals, "Count") = BagLen(df_filtered)
    /\ SeqColumnSum(am_summary, "Total_Policies") = BagLen(df_filtered)

\* 100 Flood rows and 100 Homeowners rows of one manager with one close date
FloodScenario ==
    /\ BagLen(df_filtered) = 200
    /\ RowCount(df_filtered, {r \in DOMAIN df_filtered :
                                 r.BusinessCategory = "Flood"}) = 100
    /\ RowCount(df_filtered, {r \in DOMAIN df_filtered :
                                 r.BusinessCategory = "Homeowners"}) = 100
    /\ Cardinality({<<r.AccountManager, r.CloseDate>> : r \in DOMAIN df_filtered}) = 1
    /\ \A r \in DOMAIN df_filtered : r.CloseDate # None

\* raw count 200, weighted 150, reduction 50 (the last two in units of 0.5)
FloodScenarioResult ==
    /\ Cardinality(time_totals) = 1
    /\ \A t \in time_totals : t.Count = 200 /\ t.WeightedCount = 300
    /\ Len(am_summary) = 1
    /\ am_summary[1].Total_Policies = 200
    /\ am_summary[1].Weighted_Total = 300
    /\ am_summary[1].Workload_Reduction = 100

GroupTag(label) ==
    IF label = "Day" THEN "D" ELSE IF label = "Week" THEN "W"
    ELSE IF label = "Month" THEN "M" ELSE "Q"

\* C7: the granularity of the workload buckets is decided by the span in days
\* alone: span <= 7 Day, 8..31 Week, 32..365 Month, above 365 Quarter (10 days
\* give Week, 200 days give Month), and every bucket of the render has that
\* granularity, whatever the rows.
C7_GranularityBySpan ==
    WorkloadDone =>
       /\ date_diff = end_date.ord - start_date.ord
       /\ date_diff <= 7 => time_label = "Day"
       /\ (8 <= date_diff /\ date_diff <= 31) => time_label = "Week"
       /\ (32 <= date_diff /\ date_diff <= 365) => time_label = "Month"
       /\ date_diff > 365 => time_label = "Quarter"
       /\ date_diff = 10 => time_label = "Week"
       /\ date_diff = 200 => time_label = "Month"
       /\ \A t \in time_totals :
             t.TimeGroup[1] = GroupTag(time_label) \/ t.TimeGroup = <<"NaT">>

\* C7 witness: a 10-day range whose workload is bucketed by week.
C7_Witness ==
    /\ WorkloadDone
    /\ date_diff = 10
    /\ time_label = "Week"
    /\ \E t \in time_totals : t.TimeGroup[1] = "W"

\* exactly one Auto row Won with premium 1000 and one Auto row Lost with
\* premium 500
AutoScenario ==
    /\ BagLen(df_filtered) = 2
    /\ RowCount(df_filtered, {r \in DOMAIN df_filtered :
                                 /\ r.BusinessCategory = "Auto"
                                 /\ r.StatusCategory = "Won"
                                 /\ r.Premium = 1000}) = 1
    /\ RowCount(df_filtered, {r \in DOMAIN df_filtered :
                                 /\ r.BusinessCategory = "Auto"
                                 /\ r.StatusCategory = "Lost"
                                 /\ r.Premium = 500}) = 1

\* The single Auto entry, with both rates rounded to one decimal (in tenths).
AutoEntryIs(retention_tenths, premium_tenths) ==
    LET entries == calculate_retention_rates(df_filtered)
    IN  /\ Len(entries) = 1
        /\ retention_df = entries
        /\ entries[1].BusinessCategory = "Auto"
        /\ RoundTenths(entries[1].RetentionRate) = retention_tenths
        /\ RoundTenths(entries[1].PremiumRetentionRate) = premium_tenths
        /\ entries[1].Total = 2
        /\ entries[1].Closed = 2

\* C8 (the claim as stated): one Auto row Won with premium 1000 and one Auto
\* row Lost with premium 500 give retention_rate 66.7, premium_retention_rate
\* 66.7, total 2, closed 2.
C8_AutoScenarioAsStated ==
    (RetentionDone /\ AutoScenario) => AutoEntryIs(667, 667)

\* C8 (amended): they give retention_rate 50.0 (one of two closed rows is
\* Won), premium_retention_rate 66.7, total 2, closed 2.
C8_AutoScenario ==
    (RetentionDone /\ AutoScenario) => AutoEntryIs(500, 667)

\* C8 witness: the retention section has run on exactly these two rows.
C8_Witness ==
    RetentionDone /\ AutoScenario /\ AutoEntryIs(500, 667)

FetchErrors == {FetchError(cause) : cause \in FetchFailures \cup {"record"}}

FetchFailed == messages \cap FetchErrors # {}

\* C10: when a step of the fetch fails (connecting, either query, or the
\* processing of a record), the error is shown, the row set is empty (no
\* partial rows), none of the three reports is computed, the no-data state is
\* shown, and the run goes on to its end, the footer.
C10_FetchFailureIsNoData ==
    FetchFailed =>
       /\ df = EmptyBag
       /\ df_filtered = EmptyBag
       /\ retention_df = <<>> /\ comparison_df = <<>>
       /\ time_totals = {} /\ am_summary = <<>> /\ time_label = ""
       /\ messages \cap {"header: retention", "header: win rate",
                         "header: workload"} = {}
       /\ pc \in {"fetched", "footer", "done"}
       /\ pc \in {"footer", "done"} =>
             "error: no data for the selected date range" \in messages
       /\ pc = "done" => "footer" \in messages
       /\ pc # "done" => ENABLED Next

\* C10 witness: a record could not be processed, and the run has ended with
\* the no-data state and the footer.
C10_Witness ==
    /\ pc = "done"
    /\ FetchError("record") \in messages
    /\ "error: no data for the selected date range" \in messages
    /\ "footer" \in messages
    /\ df = EmptyBag

\* The run is past the business line filter.
Filtered == pc \notin {"sidebar", "fetch", "fetched"} /\ df # EmptyBag

\* No fetched row is of a selected business line.
NothingSelected ==
    RowCount(df, {r \in DOMAIN df : r.BusinessCategory \in selected_lines}) = 0

ReportHeaders == {"header: retention", "header: win rate", "header: workload"}

\* C11: when the fetch returns rows and none of them is of a selected business
\* line, the run shows the "no data for the selected business lines" state and
\* stops there: none of the three reports is computed.  The messages of this
\* state are not those of a fetch failure: it lacks the fetch error and the
\* "no data for the selected date range" state, a failed fetch lacks the
\* "selected business lines" message, and the message appears in no other run.
C11_EmptySelectionStops ==
    /\ (Filtered /\ NothingSelected) =>
          /\ pc = "stopped"
          /\ df_filtered = EmptyBag
          /\ "error: no data for the selected business lines" \in messages
          /\ messages \cap ReportHeaders = {}
          /\ retention_df = <<>> /\ comparison_df = <<>>
          /\ time_totals = {} /\ am_summary = <<>> /\ time_label = ""
          /\ messages \cap FetchErrors = {}
          /\ "error: no data for the selected date range" \notin messages
          /\ ~ENABLED Next
    /\ FetchFailed => "error: no data for the selected business lines" \notin messages
    /\ "error: no data for the selected business lines" \in messages =>
          Filtered /\ NothingSelected

\* C11 witness: rows were fetched, none of a selected line, and the run has
\* stopped with the message.
C11_Witness ==
    /\ pc = "stopped"
    /\ BagLen(df) > 0
    /\ NothingSelected
    /\ "error: no data for the selected business lines" \in messages

\* The Won and Lost rows of a category among the fetched rows.
ClosedRows(category) ==
    RowCount(df, {r \in DOMAIN df : /\ r.BusinessCategory = category
                                    /\ r.StatusCategory \in {"Won", "Lost"}})

WonRows(category) ==
    RowCount(df, {r \in DOMAIN df : /\ r.BusinessCategory = category
                                    /\ r.StatusCategory = "Won"})

\* C12: the retention report holds exactly the selected categories that have
\* a row with Closed = Won + Lost > 0, once each (a category whose rows are
\* all Open or Unknown is dropped), and its rows are in non-increasing order
\* of RetentionRate = Won / Closed x 100: the first row has the maximum and
\* the last row the minimum rate of the report.
C12_RetentionReportRanked ==
    RetentionDone =>
       LET n == Len(retention_df)
           Rate(i) == retention_df[i].RetentionRate
       IN  /\ {retention_df[i].BusinessCategory : i \in 1..n}
                = {c \in selected_lines : ClosedRows(c) > 0}
           /\ \A i, j \in 1..n :
                 i # j => retention_df[i].BusinessCategory
                            # retention_df[j].BusinessCategory
           /\ \A i \in 1..n :
                 LET c == retention_df[i].BusinessCategory
                 IN  /\ retention_df[i].Closed = ClosedRows(c)
                     /\ Rate(i).num * ClosedRows(c)
                          = WonRows(c) * 100 * Rate(i).den
           /\ \A i, j \in 1..n : i < j => FracLeq(Rate(j), Rate(i))
           /\ \A i \in 1..n : FracLeq(Rate(i), Rate(1)) /\ FracLeq(Rate(n), Rate(i))

\* C12 witness: a report of two categories with different rates, made while a
\* selected category with rows but no closed row was left out.
C12_Witness ==
    /\ RetentionDone
    /\ Len(retention_df) >= 2
    /\ ~FracLeq(retention_df[1].RetentionRate,
                retention_df[Len(retention_df)].RetentionRate)
    /\ \E c \in selected_lines :
          /\ RowCount(df, {r \in DOMAIN df : r.BusinessCategory = c}) > 0
          /\ ClosedRows(c) = 0

\* The rows of a manager that the workload summary counts (those whose bucket
\* key is not missing), of the given categories.
CountedRows(manager, categories) ==
    RowCount(df_filtered, {r \in DOMAIN df_filtered :
                              /\ r.AccountManager = manager
                              /\ r.BusinessCategory \in categories
                              /\ TimeGroup(r.CloseDate, date_diff) # NaN})

\* C13: for every manager of the per-manager workload summary, Workload
\* Reduction = Total Policies - Weighted Total, it is >= 0, it is 0.5 x the
\* number of the manager's Flood rows counted in the summary, and 0 when the
\* manager has no Flood rows; the rows of the summary are in non-increasing
\* order of Weighted Total.  (Weighted Total and Workload Reduction are in
\* units of 0.5.)
C13_WorkloadReduction ==
    WorkloadDone =>
       LET n == Len(am_summary)
       IN  /\ \A i \in 1..n :
                 LET s == am_summary[i]
                     flood == CountedRows(s.AccountManager, {"Flood"})
                 IN  /\ s.Total_Policies = CountedRows(s.AccountManager, CategorySet)
                     /\ s.Workload_Reduction = 2 * s.Total_Policies - s.Weighted_Total
                     /\ s.Workload_Reduction >= 0
                     /\ s.Workload_Reduction = flood
                     /\ flood = 0 => s.Workload_Reduction = 0
           /\ \A i, j \in 1..n :
                 i < j => am_summary[j].Weighted_Total <= am_summary[i].Weighted_Total

\* C13 witness: a summary of two managers with different weighted totals, one
\* with Flood rows (a positive reduction) and one without (no reduction).
C13_Witness ==
    /\ WorkloadDone
    /\ Len(am_summary) >= 2
    /\ am_summary[1].Weighted_Total > am_summary[Len(am_summary)].Weighted_Total
    /\ \E i \in DOMAIN am_summary : am_summary[i].Workload_Reduction > 0
    /\ \E i \in DOMAIN am_summary :
          /\ am_summary[i].Workload_Reduction = 0
          /\ am_summary[i].Total_Policies > 0

\* The two scopes of the win-rate comparison.
Scopes == {NoMarine(df_filtered), WithCloseDate(df_filtered)}

\* The rows of a manager in a scope with one of the given outcomes.
ScopeRows(scope, manager, outcomes) ==
    RowCount(scope, {r \in DOMAIN scope : /\ r.AccountManager = manager
                                          /\ r.StatusCategory \in outcomes})

\* rate (in tenths of a percent) is won / closed x 100 rounded to one decimal:
\* it is within half a tenth of the quotient; 0 when nothing is closed.
IsWinRate(rate, won, closed) ==
    IF closed = 0 THEN rate = 0
    ELSE /\ 2 * (rate * closed - won * 1000) <= closed
         /\ 2 * (won * 1000 - rate * closed) <= closed

\* C14: in each scope and for each manager of the scope, calculate_win_rates
\* gives Win_Rate = Won / (Won + Lost) x 100 rounded to one decimal when
\* Won + Lost > 0 and exactly 0 when Won + Lost = 0; it is in [0, 100] and
\* defined also when the scope has no Won, no Lost or no Open row; Open and
\* Unknown rows are part of Total and not of the denominator.  The rates shown
\* in the comparison are these.  (Win_Rate is in tenths of a percent.)
C14_WinRateDefined ==
    (WinRateDone /\ WithCloseDate(df_filtered) # EmptyBag) =>
       /\ \A scope \in Scopes :
             LET rates == calculate_win_rates(scope)
             IN  /\ DOMAIN rates = {r.AccountManager : r \in DOMAIN scope}
                 /\ \A m \in DOMAIN rates :
                       LET won  == ScopeRows(scope, m, {"Won"})
                           lost == ScopeRows(scope, m, {"Lost"})
                       IN  /\ rates[m].Won = won
                           /\ rates[m].Lost = lost
                           /\ rates[m].Open = ScopeRows(scope, m, {"Open"})
                           /\ rates[m].Total =
                                ScopeRows(scope, m, {"Won", "Lost", "Open", "Unknown"})
                           /\ IsWinRate(rates[m].Win_Rate, won, won + lost)
                           /\ rates[m].Win_Rate \in 0..1000
       /\ \A i \in DOMAIN comparison_df :
             LET c     == comparison_df[i]
                 broad == NoMarine(df_filtered)
                 core  == WithCloseDate(df_filtered)
             IN  /\ IsWinRate(c.All_Lines_Win_Rate,
                              ScopeRows(broad, c.AccountManager, {"Won"}),
                              ScopeRows(broad, c.AccountManager, {"Won", "Lost"}))
                 /\ IsWinRate(c.Core_Lines_Win_Rate,
                              ScopeRows(core, c.AccountManager, {"Won"}),
                              ScopeRows(core, c.AccountManager, {"Won", "Lost"}))

\* C14 witness: the comparison has run on a narrow scope in which one manager
\* has rows and none of them closed (Win_Rate 0) and another has a rate
\* strictly between 0 and 100.
C14_Witness ==
    /\ WinRateDone
    /\ LET core  == WithCloseDate(df_filtered)
           rates == calculate_win_rates(core)
       IN  /\ \E m \in DOMAIN rates :
                 /\ rates[m].Won + rates[m].Lost = 0
                 /\ rates[m].Total > 0
                 /\ rates[m].Win_Rate = 0
           /\ \E m \in DOMAIN rates :
                 rates[m].Win_Rate > 0 /\ rates[m].Win_Rate < 1000

SwapNotice == "error: start date must be before or equal to end date"

\* The custom ranges <<start, end>> (as day numbers) that, entered in the
\* sidebar, leave the dates of the current state.
EnteredRanges ==
    {e \in {<<today.dt.ord - range[1], today.dt.ord - range[2]>> :
              range \in CustomRanges} :
        {e[1], e[2]} = {start_date.ord, end_date.ord}}

\* C15: in every date-range mode (Predefined with each of the four periods,
\* Custom with two dates not after today) the start date passed to the fetcher
\* and used for the span is not after the end date.  A custom range entered
\* with the start after the end is swapped, with an error notice, and the run
\* goes on; the span in days is never negative.
C15_StartNotAfterEnd ==
    pc # "sidebar" =>
       /\ start_date.ord <= end_date.ord
       /\ end_date.ord <= today.dt.ord
       /\ date_range_type = "Predefined" =>
             /\ time_period \in TimePeriods
             /\ SwapNotice \notin messages
       /\ date_range_type = "Custom" =>
             /\ EnteredRanges # {}
             /\ \A e \in EnteredRanges :
                   /\ e[1] <= today.dt.ord /\ e[2] <= today.dt.ord
                   /\ (e[1] > e[2]) <=> (SwapNotice \in messages)
                   /\ e[1] > e[2] => start_date.ord = e[2] /\ end_date.ord = e[1]
                   /\ e[1] <= e[2] => start_date.ord = e[1] /\ end_date.ord = e[2]
       /\ pc = "fetch" => ENABLED Fetch
       /\ WorkloadDone =>
             date_diff = end_date.ord - start_date.ord /\ date_diff >= 0

\* C15 witness: a custom range entered backwards (start today, end 400 days
\* before) was swapped with the notice, fetched and used for a span of 400.
C15_Witness ==
    /\ WorkloadDone
    /\ date_range_type = "Custom"
    /\ SwapNotice \in messages
    /\ start_date.ord = today.dt.ord - 400
    /\ end_date.ord = today.dt.ord
    /\ date_diff = 400

\* The span in days and the bucket the claim gives for a predefined period.
PeriodSpan(period) ==
    IF period = "Last 7 Days" THEN 7
    ELSE IF period = "Last 30 Days" THEN 30
    ELSE IF period = "Last Quarter" THEN 90
    ELSE today.dt.ord - DaysFromCivil(<<today.year, 1, 1>>)

PeriodBucket(period) ==
    IF period = "Last 7 Days" THEN "Day"
    ELSE IF period = "Last 30 Days" THEN "Week"
    ELSE IF period = "Last Quarter" THEN "Month"
    ELSE IF PeriodSpan(period) <= 7 THEN "Day"
    ELSE IF PeriodSpan(period) <= 31 THEN "Week"
    ELSE IF PeriodSpan(period) <= 365 THEN "Month"
    ELSE "Quarter"

\* The run has come to the computation of the span (line 634) and is past it.
SpanStepTaken == pc \in {"footer", "done", "exception"} /\ df_filtered # EmptyBag

\* C16 (the claim as stated): for each of the four predefined periods, when
\* the fetch returns a row of a selected line, the span (end_date -
\* start_date).days is computed without error and the bucket is selected:
\* Last 7 Days gives 7 and Day, Last 30 Days 30 and Week, Last Quarter 90 and
\* Month, Year to Date the days since 1 January and the bucket of the span
\* table; start_date and end_date are of the same date type in every branch.
C16_PredefinedSpans ==
    date_range_type = "Predefined" =>
       /\ start_date.type = end_date.type
       /\ SpanStepTaken =>
             /\ pc # "exception"
             /\ "exception: TypeError" \notin messages
             /\ date_diff = PeriodSpan(time_period)
             /\ time_label = PeriodBucket(time_period)

===========================================================================
